---- MODULE Spec2Model ----
(***************************************************************************)
(* Model of weekly_generator.py: the weekly aggregation pipeline           *)
(*   get_weekly_papers -> (get_daily_papers per day) -> report -> save.    *)
(*                                                                         *)
(* Text is modelled as a sequence of symbols.  A symbol stands for one     *)
(* word-sized piece of text ("cs.AI", "Paper A", ...) or for one blank     *)
(* (" ").  Python's `in` on strings is contiguous-subsequence containment  *)
(* and str.strip() removes the blanks at both ends.                        *)
(* Calendar dates are integers (day numbers); the run starts on day 0.     *)
(***************************************************************************)
EXTENDS Integers, Sequences, FiniteSets

VARIABLES
  cats,                \* TARGET_CATEGORIES of this run (list of labels)
  now,                 \* calendar day datetime.now() currently falls on
  crossed,             \* the wall clock has crossed midnight during the run
  pc,                  \* position of __main__: "loop", "report", "save", "done"
  i,                   \* loop variable of get_weekly_papers: iterations done
  dates,               \* date_str of every get_daily_papers call so far, in order
  last,                \* the most recent get_daily_papers call: date, fetch outcome
  weekly_papers,       \* flat list of records
  categorized_papers,  \* dict label -> list of records
  report,              \* the report text handed to save_files
  backend_calls,       \* number of openai.chat.completions.create calls
  json_file,           \* weekly_papers.json as written by this run
  md_file,             \* weekly_report.md as written by this run
  save_status          \* "none", "ok" (success line printed), "failed" (caught)

vars == <<cats, now, crossed, pc, i, dates, last, weekly_papers,
          categorized_papers, report, backend_calls, json_file, md_file,
          save_status>>

----------------------------------------------------------------------------
(* Bounds of the model *)

\* most structural units in one fetched day page
MaxUnits == 1

\* most records the pages of one window yield together
MaxPapers == 1

----------------------------------------------------------------------------
(* Configuration *)

WEEK_DAYS == 7

\* TARGET_CATEGORIES as written in the source: ONE label holding the whole list
TARGET_CATEGORIES ==
  << <<"All", " ", ",", "cs.AI", " ", ",", "cs.CE", " ", ",", "cs.CL", " ", ",",
       "cs.CV", " ", ",", "cs.GT", " ", ",", "cs.IT">> >>

\* The category lists a run is started with: the source's list, a list of two
\* plain labels, and a list with a label that carries surrounding whitespace
\* (the case the filter's cat.strip() is written for).
CategorySets ==
  { TARGET_CATEGORIES,
    << <<"cs.AI">>, <<"cs.CV">> >>,
    << <<"cs.CV">>, <<"cs.AI", " ">> >> }

----------------------------------------------------------------------------
(* Text helpers *)

\* Python: s in t
Contains(t, s) ==
  \E k \in 0..(Len(t) - Len(s)) : SubSeq(t, k + 1, k + Len(s)) = s

RECURSIVE LStrip(_)
LStrip(s) == IF s # <<>> /\ Head(s) = " " THEN LStrip(Tail(s)) ELSE s

RECURSIVE RStrip(_)
RStrip(s) ==
  IF s # <<>> /\ s[Len(s)] = " " THEN RStrip(SubSeq(s, 1, Len(s) - 1)) ELSE s

\* Python: s.strip()
Strip(s) == RStrip(LStrip(s))

----------------------------------------------------------------------------
(* Fetched pages *)

\* result of item.find(...): an element with its text, or None
NoElem == [found |-> FALSE, text |-> <<>>, href |-> <<>>]
Elem(t, h) == [found |-> TRUE, text |-> t, href |-> h]

TitleElems == { NoElem, Elem(<<" ", "Paper A">>, <<"/papers/a">>) }
AbstractElems == { NoElem, Elem(<<"Abstract A", " ">>, <<>>) }
MetaElems ==
  { NoElem,
    Elem(<<" ", "Jane Doe", "cs.AI">>, <<>>),
    Elem(<<"cs.AI", " ", "cs.CV">>, <<>>) }

\* one div.col-md-6.col-lg-4.mb-4 card of a page
Units ==
  { u \in [title_elem : TitleElems, abstract_elem : AbstractElems,
           meta_elem : MetaElems] :
      u.title_elem.found \/ u.abstract_elem.found }

\* the cards of one page, in document order
Pages == UNION { [1..n -> Units] : n \in 0..MaxUnits }

----------------------------------------------------------------------------
(* get_daily_papers *)

\* CategoryFilter with the containment test written the wrong way round
CategoryFilter_Reversed(meta_text, categories) ==
  \E k \in 1..Len(categories) : Contains(Strip(categories[k]), meta_text)

\* any(cat.strip() in meta_text for cat in TARGET_CATEGORIES)
CategoryFilter(meta_text, categories) ==
  \E k \in 1..Len(categories) : Contains(meta_text, Strip(categories[k]))

\* the fields read from one card
ExtractUnit(item, date_str) ==
  [ date     |-> date_str,
    title    |-> IF item.title_elem.found
                 THEN Strip(item.title_elem.text) ELSE <<>>,
    abstract |-> IF item.abstract_elem.found
                 THEN Strip(item.abstract_elem.text) ELSE <<>>,
    meta     |-> IF item.meta_elem.found
                 THEN Strip(item.meta_elem.text) ELSE <<>>,
    url      |-> IF item.title_elem.found /\ item.title_elem.href # <<>>
                 THEN item.title_elem.href ELSE <<>> ]

\* KeepUnit with a card that has no title skipped
KeepUnit_SkipsUntitled(item, categories) ==
  /\ item.title_elem.found
  /\ CategoryFilter(ExtractUnit(item, 0).meta, categories)

\* whether the card's record is appended to papers
KeepUnit(item, categories) ==
  CategoryFilter(ExtractUnit(item, 0).meta, categories)

\* the loop over paper_items: the records of the kept cards, in page order
RECURSIVE ParsePage(_, _, _)
ParsePage(page, date_str, categories) ==
  IF page = <<>> THEN <<>>
  ELSE LET rest == ParsePage(Tail(page), date_str, categories)
       IN  IF KeepUnit(Head(page), categories)
           THEN <<ExtractUnit(Head(page), date_str)>> \o rest
           ELSE rest

\* what requests.get and the parse of its body end in
Responses ==
  { [kind |-> "ok", page |-> p] : p \in Pages }
    \cup { [kind |-> "http_error", page |-> <<>>],
           [kind |-> "exception",  page |-> <<>>] }

\* get_daily_papers(date_str), given what the fetch ended in
GetDailyPapers(date_str, resp, categories) ==
  IF resp.kind = "ok" THEN ParsePage(resp.page, date_str, categories) ELSE <<>>

----------------------------------------------------------------------------
(* get_weekly_papers *)

Range(s) == { s[k] : k \in 1..Len(s) }

\* {cat: [] for cat in TARGET_CATEGORIES}
EmptyIndex(categories) == [cat \in Range(categories) |-> <<>>]

\* index of the first cat with `cat in paper["meta"]`, 0 when the loop ends
\* without a break
FirstMatch(meta, categories) ==
  IF \E k \in 1..Len(categories) : Contains(meta, categories[k])
  THEN CHOOSE k \in 1..Len(categories) :
         /\ Contains(meta, categories[k])
         /\ \A j \in 1..(k - 1) : ~Contains(meta, categories[j])
  ELSE 0

\* for paper in daily_papers: for cat in ...: if cat in meta: append; break
RECURSIVE GroupPapers(_, _, _)
GroupPapers(index, daily_papers, categories) ==
  IF daily_papers = <<>> THEN index
  ELSE LET paper == Head(daily_papers)
           k     == FirstMatch(paper.meta, categories)
           next  == IF k = 0 THEN index
                    ELSE [index EXCEPT ![categories[k]] = Append(@, paper)]
       IN  GroupPapers(next, Tail(daily_papers), categories)

----------------------------------------------------------------------------
(* Reports *)

NoReport ==
  [kind |-> "none", header |-> <<>>, err |-> "", text |-> <<>>, details |-> <<>>]

\* keys of the dict in insertion order: first occurrences of the labels
RECURSIVE Keys(_)
Keys(categories) ==
  IF categories = <<>> THEN <<>>
  ELSE LET front == Keys(SubSeq(categories, 1, Len(categories) - 1))
           cat   == categories[Len(categories)]
       IN  IF cat \in Range(front) THEN front ELSE Append(front, cat)

\* CategoryDetails with len(cat) written for len(papers)
CategoryDetails_LenOfLabel(index, categories, e) ==
  [k \in 1..Len(Keys(categories)) |->
     <<Keys(categories)[k], Len(Keys(categories)[k])>>]

\* one "### {cat} / {len(papers)} papers" entry for cat, papers in items();
\* e, the caught error, is in scope where the entries are built
CategoryDetails(index, categories, e) ==
  [k \in 1..Len(Keys(categories)) |->
     <<Keys(categories)[k], Len(index[Keys(categories)[k]])>>]

\* the except branch of generate_weekly_report
FallbackReport(index, categories, e, day) ==
  [kind |-> "fallback", header |-> <<day>>, err |-> e, text |-> <<>>,
   details |-> CategoryDetails(index, categories, e)]

\* response.choices[0].message.content.strip()
LlmReport(content) ==
  [kind |-> "llm", header |-> <<>>, err |-> "", text |-> Strip(content),
   details |-> <<>>]

\* the hardcoded report of __main__ for an empty window
EmptyReport(day) ==
  [kind |-> "empty", header |-> <<day>>, err |-> "", text |-> <<>>,
   details |-> << << <<"cs.AI">>, 0 >>, << <<"cs.LG">>, 0 >>,
                  << <<"stat.ML">>, 0 >> >>]

\* IsEmptyWindow with the test inverted
IsEmptyWindow_Inverted(total_papers) == total_papers # 0

\* if total_papers == 0
IsEmptyWindow(total_papers) == total_papers = 0

\* what the backend answers, and the errors its call raises
BackendTexts == { <<" ", "narrative", " ">> }
BackendErrors == { "timeout", "malformed response" }

----------------------------------------------------------------------------
(* Output artifacts *)

NoJson == [written |-> FALSE, records |-> <<>>]
NoMd   == [written |-> FALSE, text |-> NoReport]

\* df.to_json("weekly_papers.json", orient="records", ...)
WriteJson(papers) == [written |-> TRUE, records |-> papers]

\* WriteMd with the write left out
WriteMd_Skipped(text) == [written |-> FALSE, text |-> NoReport]

\* open("weekly_report.md", "w").write(report)
WriteMd(text) == [written |-> TRUE, text |-> text]

----------------------------------------------------------------------------
(* The run *)

Init ==
  /\ cats \in CategorySets
  /\ now = 0
  /\ crossed = FALSE
  /\ pc = "loop"
  /\ i = 0
  /\ dates = <<>>
  /\ last = [date |-> 0, outcome |-> "none"]
  /\ weekly_papers = <<>>
  /\ categorized_papers = EmptyIndex(cats)
  /\ report = NoReport
  /\ backend_calls = 0
  /\ json_file = NoJson
  /\ md_file = NoMd
  /\ save_status = "none"

\* The wall clock passes midnight while the run is still reading it.  A run
\* lasts minutes, so this happens at most once.
Midnight ==
  /\ pc = "loop"
  /\ ~crossed
  /\ now' = now + 1
  /\ crossed' = TRUE
  /\ UNCHANGED <<cats, pc, i, dates, last, weekly_papers, categorized_papers,
                 report, backend_calls, json_file, md_file, save_status>>

\* One iteration of the loop of get_weekly_papers; the function returns to
\* __main__ after the last one.
WeeklyIteration(resp) ==
  /\ pc = "loop"
  /\ i < WEEK_DAYS
  /\ LET date_str     == now - i
         daily_papers == GetDailyPapers(date_str, resp, cats)
     IN  /\ Len(weekly_papers) + Len(daily_papers) <= MaxPapers
         /\ weekly_papers' = weekly_papers \o daily_papers
         /\ categorized_papers' =
              GroupPapers(categorized_papers, daily_papers, cats)
         /\ dates' = Append(dates, date_str)
         /\ last' = [date |-> date_str, outcome |-> resp.kind]
  /\ i' = i + 1
  /\ pc' = IF i + 1 = WEEK_DAYS THEN "report" ELSE "loop"
  /\ UNCHANGED <<cats, now, crossed, report, backend_calls, json_file, md_file,
                 save_status>>

\* the day page is served with status 200
DayFetched == \E resp \in Responses : resp.kind = "ok" /\ WeeklyIteration(resp)

\* the day page is answered with another status
DayNotAccessible ==
  \E resp \in Responses : resp.kind = "http_error" /\ WeeklyIteration(resp)

\* requests.get or the parse raises
DayRaised ==
  \E resp \in Responses : resp.kind = "exception" /\ WeeklyIteration(resp)

\* __main__, total_papers == 0: the hardcoded report
EmptyWindow ==
  /\ pc = "report"
  /\ IsEmptyWindow(Len(weekly_papers))
  /\ report' = EmptyReport(now)
  /\ pc' = "save"
  /\ UNCHANGED <<cats, now, crossed, i, dates, last, weekly_papers,
                 categorized_papers, backend_calls, json_file, md_file,
                 save_status>>

\* generate_weekly_report, the backend answers
GenerateReport ==
  /\ pc = "report"
  /\ ~IsEmptyWindow(Len(weekly_papers))
  /\ \E content \in BackendTexts : report' = LlmReport(content)
  /\ backend_calls' = backend_calls + 1
  /\ pc' = "save"
  /\ UNCHANGED <<cats, now, crossed, i, dates, last, weekly_papers,
                 categorized_papers, json_file, md_file, save_status>>

\* generate_weekly_report, the backend call raises
GenerateFallback ==
  /\ pc = "report"
  /\ ~IsEmptyWindow(Len(weekly_papers))
  /\ \E e \in BackendErrors :
       report' = FallbackReport(categorized_papers, cats, e, now)
  /\ backend_calls' = backend_calls + 1
  /\ pc' = "save"
  /\ UNCHANGED <<cats, now, crossed, i, dates, last, weekly_papers,
                 categorized_papers, json_file, md_file, save_status>>

\* save_files, both writes succeed
SaveFiles ==
  /\ pc = "save"
  /\ json_file' = WriteJson(weekly_papers)
  /\ md_file' = WriteMd(report)
  /\ save_status' = "ok"
  /\ pc' = "done"
  /\ UNCHANGED <<cats, now, crossed, i, dates, last, weekly_papers,
                 categorized_papers, report, backend_calls>>

\* save_files, to_json raises: caught, nothing after it runs
SaveFilesJsonRaised ==
  /\ pc = "save"
  /\ save_status' = "failed"
  /\ pc' = "done"
  /\ UNCHANGED <<cats, now, crossed, i, dates, last, weekly_papers,
                 categorized_papers, report, backend_calls, json_file, md_file>>

\* save_files, writing the report raises: caught, the export is on disk
SaveFilesReportRaised ==
  /\ pc = "save"
  /\ json_file' = WriteJson(weekly_papers)
  /\ save_status' = "failed"
  /\ pc' = "done"
  /\ UNCHANGED <<cats, now, crossed, i, dates, last, weekly_papers,
                 categorized_papers, report, backend_calls, md_file>>

\* a step of the program
Step ==
  \/ DayNotAccessible
  \/ DayFetched
  \/ DayRaised
  \/ EmptyWindow
  \/ GenerateReport
  \/ GenerateFallback
  \/ SaveFiles
  \/ SaveFilesJsonRaised
  \/ SaveFilesReportRaised

\* runs during which the wall clock stays within one calendar day
Spec == Init /\ [][Step]_vars

\* runs during which the wall clock may also cross midnight
Next == Midnight \/ Step

ClockSpec == Init /\ [][Next]_vars

----------------------------------------------------------------------------
(* Properties *)

\* the record is an element of the list
InList(r, papers) == \E n \in 1..Len(papers) : papers[n] = r

\* some configured label, trimmed, is a substring of the meta text
MatchesSomeLabel(meta, categories) ==
  \E k \in 1..Len(categories) : Contains(meta, Strip(categories[k]))

\* a page served with status 200 that holds the one card u
OnePage(u) == [kind |-> "ok", page |-> <<u>>]

\* C1: once get_weekly_papers has returned, every record of weekly_papers is
\* in exactly one value list of categorized_papers, the catch-all "Other"
\* included.
C1_PartitionWithCatchAll ==
  pc # "loop" =>
    \A n \in 1..Len(weekly_papers) :
      Cardinality({ key \in DOMAIN categorized_papers :
                      InList(weekly_papers[n], categorized_papers[key]) }) = 1

\* C2: every record of weekly_papers has a meta text that contains a
\* configured label, trimmed, as a substring; and a card whose meta text
\* contains none yields no record.
C2_FilterSoundness ==
  /\ \A n \in 1..Len(weekly_papers) :
       MatchesSomeLabel(weekly_papers[n].meta, cats)
  /\ \A u \in Units :
       ~MatchesSomeLabel(ExtractUnit(u, now - i).meta, cats)
         => GetDailyPapers(now - i, OnePage(u), cats) = <<>>

\* a record is in the flat list that only the trimmed form of a label matches
C2_Witness ==
  \E n \in 1..Len(weekly_papers) :
    /\ MatchesSomeLabel(weekly_papers[n].meta, cats)
    /\ FirstMatch(weekly_papers[n].meta, cats) = 0

\* C3: a date whose fetch ended in a non-200 status or an exception has no
\* record in weekly_papers, and the loop still runs all WEEK_DAYS iterations.
C3_FailureIsolation ==
  /\ last.outcome \in {"http_error", "exception"}
       => \A n \in 1..Len(weekly_papers) : weekly_papers[n].date # last.date
  /\ pc # "loop" => i = WEEK_DAYS

\* C4: the fallback report states, for every key of categorized_papers, the
\* length of that key's list, whatever the error was; the run goes on to
\* save_files.
C4_FallbackCounts ==
  report.kind = "fallback" =>
    /\ pc \in {"save", "done"}
    /\ Len(report.details) = Cardinality(DOMAIN categorized_papers)
    /\ \A key \in DOMAIN categorized_papers :
         \E k \in 1..Len(report.details) :
           report.details[k] = <<key, Len(categorized_papers[key])>>
    /\ \A e \in BackendErrors :
         FallbackReport(categorized_papers, cats, e, now).details
           = report.details

\* a fallback report over an index that holds a record
C4_Witness ==
  /\ report.kind = "fallback"
  /\ \E key \in DOMAIN categorized_papers : categorized_papers[key] # <<>>

\* C5: the backend is called at most once, only after all WEEK_DAYS fetches
\* and only for a non-empty window; a run that reaches save_files has called
\* it exactly when weekly_papers is not empty.
C5_EmptyWindowBypass ==
  /\ backend_calls <= 1
  /\ backend_calls = 1 =>
       /\ pc \in {"save", "done"}
       /\ Len(dates) = WEEK_DAYS
       /\ weekly_papers # <<>>
  /\ pc \in {"save", "done"} =>
       (backend_calls = 0 <=> weekly_papers = <<>>)

\* a run over an empty window has ended without a backend call
C5_Witness ==
  /\ pc = "done"
  /\ weekly_papers = <<>>
  /\ report.kind = "empty"
  /\ backend_calls = 0

\* C6: the labels listed in the empty-window report are the configured ones.
C6_EmptyReportListsConfigured ==
  report.kind = "empty" =>
    { report.details[k][1] : k \in 1..Len(report.details) } = Range(cats)

\* steps left: what every step of a run makes smaller
StepsLeft ==
  (WEEK_DAYS - i) + (IF crossed THEN 0 ELSE 1)
    + (CASE pc = "loop" -> 3 [] pc = "report" -> 2 [] pc = "save" -> 1
         [] OTHER -> 0)

C8_TitleLessSkipped ==
  \A n \in 1..Len(weekly_papers) :
    /\ weekly_papers[n].title # <<>>
    /\ weekly_papers[n].abstract \in {<<>>, <<"Abstract A">>}

\* C8 as amended: a card is kept exactly when its meta text matches, with or
\* without a title element; a missing title element gives title "" and url
\* "", a missing abstract element gives abstract "".
C8_Amended ==
  /\ \A u \in Units :
       LET out == GetDailyPapers(now - i, OnePage(u), cats)
       IN  IF MatchesSomeLabel(ExtractUnit(u, now - i).meta, cats)
           THEN /\ Len(out) = 1
                /\ ~u.title_elem.found
                     => out[1].title = <<>> /\ out[1].url = <<>>
                /\ u.title_elem.found => out[1].title # <<>>
                /\ ~u.abstract_elem.found => out[1].abstract = <<>>
           ELSE out = <<>>
  /\ \A n \in 1..Len(weekly_papers) :
       weekly_papers[n].title = <<>> => weekly_papers[n].url = <<>>

\* the record of a card without a title element is in the flat list
C8_Witness ==
  \E n \in 1..Len(weekly_papers) :
    weekly_papers[n].title = <<>> /\ weekly_papers[n].abstract # <<>>

\* C9: the dates fetched are ref, ref-1, ..., each once and in that order,
\* for one reference day ref; a finished loop has fetched WEEK_DAYS of them.
C9_WindowDates ==
  /\ \A k \in 1..Len(dates) : dates[k] = dates[1] - (k - 1)
  /\ pc # "loop" => Len(dates) = WEEK_DAYS

\* C10: the text written to weekly_report.md begins with a dated header line.
C10_DatedHeader ==
  md_file.written => md_file.text.header # <<>>

====
